---- MODULE Spec2Model ----
(***************************************************************************)
(* Model of scripts/cve_security_check.py: the dependency-to-vulnerability *)
(* correlation pipeline of CVEChecker (query, normalise, enrich, dedupe,   *)
(* classify, report).                                                      *)
(*                                                                         *)
(* Representation of Python values                                         *)
(*  - A str the code takes apart (package names, versions, identifiers,    *)
(*    CPE names) is a sequence of tokens; a token is a chunk no string     *)
(*    operation of the code looks inside of, and the delimiters the code   *)
(*    splits on are tokens of their own.  "1:1.2" is <<"1", ":", "1.2">>,  *)
(*    the empty str is <<>>, concatenation is \o.                          *)
(*  - A str the code only compares (source, ecosystem, summary, severity   *)
(*    labels, urls) is a TLA+ string.                                      *)
(*  - None is NoneS for token strings and NoneT for plain strings.         *)
(***************************************************************************)
EXTENDS Integers, Sequences, FiniteSets, TLC

VARIABLES
    pc,         \* position of the operation under way
    \* run_security_check / _check_vulnerabilities
    offline,          \* self.offline
    forced_ecosystem, \* the ecosystem argument of the constructor (None: not forced)
    ecosystem,        \* self.ecosystem
    dependencies,     \* self.dependencies
    pos,              \* position of the loop under way (stages, conan, enrichment)
    local,            \* the findings list local to the query function under way
    findings,         \* the findings list of _check_vulnerabilities
    vulnerabilities,  \* self.vulnerabilities
    report,           \* the report run_security_check returns
    calls,            \* the network requests issued so far, in order
    raised,           \* an exception left run_security_check
    \* the operations checked on their own
    items,      \* _dedupe_findings: the argument
    out,        \* _dedupe_findings(items)
    out2,       \* _dedupe_findings(out)
    group,      \* _highest_severity: the argument (findings of one package)
    labels,     \* _severity_of of each finding of group
    aggregate,  \* _highest_severity(group)
    cname,      \* guess_cpe_for_conan: name
    cversion,   \* guess_cpe_for_conan: version
    cresponse,  \* guess_cpe_for_conan: outcome of nvd.find_cpe_candidates
    cpe,        \* guess_cpe_for_conan: the value returned
    in_meta,    \* _osv_results_to_findings: meta
    in_resp,    \* _osv_results_to_findings: osv_batch_resp
    nfind       \* _osv_results_to_findings: the value returned

runVars == <<offline, forced_ecosystem, ecosystem, dependencies, pos, local,
             findings, vulnerabilities, report, calls, raised>>
ddVars == <<items, out, out2>>
sevVars == <<group, labels, aggregate>>
cpeVars == <<cname, cversion, cresponse, cpe>>
osvVars == <<in_meta, in_resp, nfind>>
unitVars == <<ddVars, sevVars, cpeVars, osvVars>>

vars == <<pc, runVars, ddVars, sevVars, cpeVars, osvVars>>

----------------------------------------------------------------------------
(* Python values *)

NoneS == <<"<None>">>
NoneT == "<None>"

\* truthiness of a str-or-None value (None and "" are falsy)
TruthyS(s) == s # NoneS /\ s # <<>>
TruthyT(s) == s # NoneT /\ s # ""

\* the elements of a sequence, as a set
Range(s) == {s[i] : i \in 1..Len(s)}

\* all sequences over S of length at most n
SeqsUpTo(S, n) == UNION {[1..k -> S] : k \in 0..n}

----------------------------------------------------------------------------
(* Finding records.  OSV findings carry source, id, package, ecosystem,    *)
(* version, summary, severity, references, aliases, affected; NVD findings *)
(* carry source, id, package, version, summary, cvss, references.  A key a *)
(* dict lacks reads as None through dict.get, so one record shape with     *)
(* None for the absent keys models both.                                   *)

\* a finding without a "cvss" entry (or with cvss None)
NoCvss == [present |-> FALSE, baseSeverity |-> NoneT, baseScore |-> -1]

Finding(src, id, pkg, eco, ver, summ, sev, cv, refs, als, aff) ==
    [source |-> src, id |-> id, package |-> pkg, ecosystem |-> eco,
     version |-> ver, summary |-> summ, severity |-> sev, cvss |-> cv,
     references |-> refs, aliases |-> als, affected |-> aff]

----------------------------------------------------------------------------
(* _dedupe_findings *)

\* a key that also takes the summary into account
IdentityKeyWithSummary(it) == [id |-> it.id, summary |-> it.summary]

\* key = it.get("id") or (source, package, version, summary)
IdentityKey(it) ==
    IF TruthyS(it.id)
    THEN [id |-> it.id]
    ELSE [source |-> it.source, package |-> it.package,
          version |-> it.version, summary |-> it.summary]

\* a later finding with a seen key replaces the retained one (last wins)
RECURSIVE DedupeLoopLastWins(_, _, _, _)
DedupeLoopLastWins(its, i, seen, acc) ==
    IF i > Len(its) THEN acc
    ELSE LET key == IdentityKey(its[i]) IN
         IF key \in seen
         THEN DedupeLoopLastWins(its, i + 1, seen,
                  [k \in 1..Len(acc) |->
                      IF IdentityKey(acc[k]) = key THEN its[i] ELSE acc[k]])
         ELSE DedupeLoopLastWins(its, i + 1, seen \cup {key}, Append(acc, its[i]))

\* duplicates removed from the list being iterated: the element after a
\* removed one is skipped by the iterator and stays, unexamined
RECURSIVE DedupeLoopRemoveInPlace(_, _, _, _)
DedupeLoopRemoveInPlace(its, i, seen, acc) ==
    IF i > Len(its) THEN acc
    ELSE LET key == IdentityKey(its[i]) IN
         IF key \in seen
         THEN DedupeLoopRemoveInPlace(its, i + 2, seen,
                  IF i + 1 <= Len(its) THEN Append(acc, its[i + 1]) ELSE acc)
         ELSE DedupeLoopRemoveInPlace(its, i + 1, seen \cup {key}, Append(acc, its[i]))

RECURSIVE DedupeLoop(_, _, _, _)
DedupeLoop(its, i, seen, acc) ==
    IF i > Len(its) THEN acc
    ELSE LET key == IdentityKey(its[i]) IN
         IF key \in seen
         THEN DedupeLoop(its, i + 1, seen, acc)
         ELSE DedupeLoop(its, i + 1, seen \cup {key}, Append(acc, its[i]))

_dedupe_findings(its) == DedupeLoop(its, 1, {}, <<>>)

----------------------------------------------------------------------------
(* Severity classification: _sev_order, _highest_severity, _severity_of.   *)
(* A CVSS base score is kept in tenths (9.0 is 90); NoScore stands for a   *)
(* missing or non-numeric baseScore.                                       *)

NoScore == -1

Cvss(bsev, score) == [present |-> TRUE, baseSeverity |-> bsev, baseScore |-> score]

\* str.upper() on the severity vocabulary of the model
Upper(s) ==
    CASE s = "low" -> "LOW"
      [] s = "medium" -> "MEDIUM"
      [] s = "high" -> "HIGH"
      [] s = "critical" -> "CRITICAL"
      [] s = "moderate" -> "MODERATE"
      [] OTHER -> s

\* `x or y` on str-or-None values
OrT(x, y) == IF TruthyT(x) THEN x ELSE y

\* order.get((sev or "").upper(), -1)
_sev_order(sev) ==
    LET u == Upper(OrT(sev, "")) IN
    CASE u = "LOW" -> 0
      [] u = "MEDIUM" -> 1
      [] u = "HIGH" -> 2
      [] u = "CRITICAL" -> 3
      [] OTHER -> -1

\* the label _highest_severity reads off one finding:
\* (v.get("severity") or (v.get("cvss") or {}).get("baseSeverity") or "UNKNOWN").upper()
HighestLabelOf(v) == Upper(OrT(v.severity, OrT(v.cvss.baseSeverity, "UNKNOWN")))

RECURSIVE HighestLoop(_, _, _, _)
HighestLoop(vulns, i, best, best_score) ==
    IF i > Len(vulns) THEN best
    ELSE LET sev == HighestLabelOf(vulns[i])
             s == _sev_order(sev)
         IN IF s > best_score
            THEN HighestLoop(vulns, i + 1, sev, s)
            ELSE HighestLoop(vulns, i + 1, best, best_score)

_highest_severity(vulns_for_pkg) == HighestLoop(vulns_for_pkg, 1, "UNKNOWN", -1)

\* thresholds compared with > instead of >=
ScoreLabelStrict(score) ==
    IF score > 90 THEN "CRITICAL"
    ELSE IF score > 70 THEN "HIGH"
    ELSE IF score > 40 THEN "MEDIUM"
    ELSE "LOW"

\* score >= 9.0 CRITICAL, >= 7.0 HIGH, >= 4.0 MEDIUM, else LOW
ScoreLabel(score) ==
    IF score >= 90 THEN "CRITICAL"
    ELSE IF score >= 70 THEN "HIGH"
    ELSE IF score >= 40 THEN "MEDIUM"
    ELSE "LOW"

_severity_of(v) ==
    LET sev == Upper(OrT(v.severity, ""))
        base_sev == Upper(OrT(v.cvss.baseSeverity, ""))
        score == v.cvss.baseScore
    IN IF sev # "" THEN sev
       ELSE IF base_sev # "" THEN base_sev
       ELSE IF score # NoScore THEN ScoreLabel(score)
       ELSE "UNKNOWN"

----------------------------------------------------------------------------
(* Token strings: split, join, lower, substring *)

Colon == ":"
Star == <<"*">>

\* str.lower() on the tokens of the model's vocabulary
LowerTok(t) ==
    CASE t = "Open" -> "open"
      [] t = "SSL" -> "ssl"
      [] t = "Unknown" -> "unknown"
      [] OTHER -> t

Lower(s) == [k \in 1..Len(s) |-> LowerTok(s[k])]

\* `sub in s` for str: sub occurs in s as a contiguous run
Contains(sub, s) ==
    \E k \in 0..(Len(s) - Len(sub)) :
        \A m \in 1..Len(sub) : s[k + m] = sub[m]

\* s.split(":"): the fields between the ":" tokens ("" splits to [""])
RECURSIVE SplitLoop(_, _, _, _)
SplitLoop(s, i, cur, acc) ==
    IF i > Len(s) THEN Append(acc, cur)
    ELSE IF s[i] = Colon
         THEN SplitLoop(s, i + 1, <<>>, Append(acc, cur))
         ELSE SplitLoop(s, i + 1, Append(cur, s[i]), acc)

Split(s) == SplitLoop(s, 1, <<>>, <<>>)

\* ":".join(fields)
RECURSIVE Join(_)
Join(fields) ==
    IF Len(fields) = 0 THEN <<>>
    ELSE IF Len(fields) = 1 THEN fields[1]
    ELSE fields[1] \o <<Colon>> \o Join(Tail(fields))

\* `x or y` on token strings
OrS(x, y) == IF TruthyS(x) THEN x ELSE y

----------------------------------------------------------------------------
(* guess_cpe_for_conan.  The outcome of nvd.find_cpe_candidates is either  *)
(* [raised |-> TRUE] or the list of the cpeName values of the returned     *)
(* products (NoneS for a product without cpeName).                         *)

CpeFields == 13

\* parts qualifies: class "a" and vendor or product matches the name
CpeMatches(parts, name_l) ==
    /\ Len(parts) >= 5
    /\ parts[3] = <<"a">>
    /\ \/ Lower(parts[4]) = name_l
       \/ Lower(parts[5]) = name_l
       \/ Contains(name_l, Lower(parts[5]))

\* the first qualifying candidate's parts, <<>> when there is none
RECURSIVE BestCandidate(_, _, _)
BestCandidate(candidates, i, name_l) ==
    IF i > Len(candidates) THEN <<>>
    ELSE LET cpe23 == candidates[i] IN
         IF ~TruthyS(cpe23) THEN BestCandidate(candidates, i + 1, name_l)
         ELSE LET parts == Split(cpe23) IN
              IF CpeMatches(parts, name_l) THEN parts
              ELSE BestCandidate(candidates, i + 1, name_l)

\* best += ["*"] * (13 - len(best))
PadTo13(best) ==
    best \o [k \in 1..(IF Len(best) < CpeFields THEN CpeFields - Len(best) ELSE 0) |-> Star]

\* returns the CPE string, or NoneS
guess_cpe_for_conan(name, version, response) ==
    IF response.raised THEN NoneS
    ELSE LET name_l == Lower(OrS(name, <<>>))
             best == BestCandidate(response.candidates, 1, name_l)
         IN IF Len(best) = 0 THEN NoneS
            ELSE LET padded == PadTo13(best)
                     injected == [padded EXCEPT ![6] = OrS(version, Star)]
                 IN Join(SubSeq(injected, 1, CpeFields))

----------------------------------------------------------------------------
(* _osv_results_to_findings.  A batch response is [results |-> <<...>>];   *)
(* a result is [package, ecosystem, version, vulns] (package NoneS when    *)
(* the service embeds none); a vulnerability entry is [id, summary,        *)
(* severity, references, aliases, affected] with severity the list of the  *)
(* entries' "severity" values.  meta is the list of [name, eco, ver]       *)
(* captured at query time, <<>> when the caller passes none.               *)

NoMeta == [name |-> NoneS, eco |-> NoneT, ver |-> NoneS]

\* attribution taken from the entry before the result's own (meta[idx - 1],
\* which wraps to the last entry for idx = 0)
MetaAtPrevious(meta, idx) ==
    IF Len(meta) > 0 /\ idx < Len(meta)
    THEN (IF idx = 0 THEN meta[Len(meta)] ELSE meta[idx])
    ELSE NoMeta

\* pkg_name, eco, ver = meta[idx] if meta and idx < len(meta) else None * 3
\* (idx counts from 0 as enumerate does)
MetaAt(meta, idx) ==
    IF Len(meta) > 0 /\ idx < Len(meta) THEN meta[idx + 1] ELSE NoMeta

\* the attribution of result idx: meta, else the package the result embeds
Attribution(res, meta, idx) ==
    LET m == MetaAt(meta, idx) IN
    IF TruthyS(m.name) THEN m
    ELSE [name |-> res.package, eco |-> res.ecosystem, ver |-> res.version]

\* for sv in severity: sev = sv.get("severity") or sev
RECURSIVE SeverityLoop(_, _, _)
SeverityLoop(sevs, i, sev) ==
    IF i > Len(sevs) THEN sev
    ELSE SeverityLoop(sevs, i + 1, OrT(sevs[i], sev))

OsvFinding(v, att) ==
    Finding("OSV", v.id, att.name, att.eco, att.ver, v.summary,
            SeverityLoop(v.severity, 1, NoneT), NoCvss,
            v.references, v.aliases, v.affected)

\* one finding per result that has entries, for its first entry only
ResultFindingsFirstOnly(res, meta, idx) ==
    LET att == Attribution(res, meta, idx) IN
    IF Len(res.vulns) = 0 THEN <<>>
    ELSE <<OsvFinding(res.vulns[1], att)>>

\* the findings of one result
ResultFindings(res, meta, idx) ==
    LET att == Attribution(res, meta, idx) IN
    [k \in 1..Len(res.vulns) |-> OsvFinding(res.vulns[k], att)]

RECURSIVE OsvLoop(_, _, _, _)
OsvLoop(results, meta, idx, acc) ==
    IF idx >= Len(results) THEN acc
    ELSE OsvLoop(results, meta, idx + 1,
                 acc \o ResultFindings(results[idx + 1], meta, idx))

_osv_results_to_findings(osv_batch_resp, meta) ==
    OsvLoop(osv_batch_resp.results, meta, 0, <<>>)

----------------------------------------------------------------------------
(* Version clean-up and query construction *)

Space == " "

RECURSIVE StripRight(_)
StripRight(s) ==
    IF Len(s) > 0 /\ s[Len(s)] = Space THEN StripRight(SubSeq(s, 1, Len(s) - 1)) ELSE s

RECURSIVE StripLeft(_)
StripLeft(s) ==
    IF Len(s) > 0 /\ s[1] = Space THEN StripLeft(Tail(s)) ELSE s

\* str.strip()
Strip(s) == StripLeft(StripRight(s))

\* re.sub(r"\s*\(installed\)\s*$", "", ver or "").strip()
_clean_version(ver) ==
    LET v == OrS(ver, <<>>)
        r == StripRight(v)
    IN IF Len(r) > 0 /\ r[Len(r)] = "(installed)"
       THEN Strip(SubSeq(r, 1, Len(r) - 1))
       ELSE Strip(v)

\* ver in ("system", "required", "unknown")
Placeholder(ver) == ver \in {<<"system">>, <<"required">>, <<"unknown">>}

\* ubuntu_pkg_to_osv_query / debian_pkg_to_osv_query / the Alpine literal
PackageQuery(name, eco, ver) ==
    [kind |-> "package", name |-> name, ecosystem |-> eco, version |-> ver]

CommitQuery(commit) == [kind |-> "commit", commit |-> commit]

\* f"{st['stage']}::{name}"
StageQualified(stage, name) == stage \o <<"::">> \o name

\* the (query, meta) pairs of the apt packages of a stage
RECURSIVE AptPairs(_, _, _)
AptPairs(st, i, acc) ==
    IF i > Len(st.apt) THEN acc
    ELSE LET name == st.apt[i].name
             ver == _clean_version(st.apt[i].version)
         IN IF ~TruthyS(name) \/ ~TruthyS(ver) \/ Placeholder(ver)
            THEN AptPairs(st, i + 1, acc)
            ELSE IF st.ecosystem \in {"Ubuntu", "Debian"}
                 THEN AptPairs(st, i + 1, Append(acc,
                          [q |-> PackageQuery(name, st.ecosystem, ver),
                           m |-> [name |-> StageQualified(st.stage, name),
                                  eco |-> st.ecosystem, ver |-> ver]]))
                 ELSE AptPairs(st, i + 1, acc)

\* the (query, meta) pairs of the apk packages of a stage
RECURSIVE ApkPairs(_, _, _)
ApkPairs(st, i, acc) ==
    IF i > Len(st.apk) THEN acc
    ELSE IF st.ecosystem # "Alpine" THEN ApkPairs(st, i + 1, acc)
    ELSE LET name == st.apk[i].name
             ver == st.apk[i].version
         IN IF ~TruthyS(name) \/ ~TruthyS(ver) \/ ver = <<"unknown">>
            THEN ApkPairs(st, i + 1, acc)
            ELSE ApkPairs(st, i + 1, Append(acc,
                     [q |-> PackageQuery(name, "Alpine", ver),
                      m |-> [name |-> StageQualified(st.stage, name),
                             eco |-> "Alpine", ver |-> ver]]))

\* queries and meta of one build stage (<<>> for an unrecognised ecosystem)
StagePairs(st) ==
    IF st.ecosystem \notin {"Ubuntu", "Debian", "Alpine"} THEN <<>>
    ELSE ApkPairs(st, 1, AptPairs(st, 1, <<>>))

\* queries and meta of the flat system map, for self.ecosystem = eco
RECURSIVE FlatPairs(_, _, _, _)
FlatPairs(system, eco, i, acc) ==
    IF i > Len(system) THEN acc
    ELSE LET ver == _clean_version(system[i].version) IN
         IF ~TruthyS(ver) \/ Placeholder(ver) THEN FlatPairs(system, eco, i + 1, acc)
         ELSE IF eco \in {"Ubuntu", "Debian"}
              THEN FlatPairs(system, eco, i + 1, Append(acc,
                       [q |-> PackageQuery(system[i].name, eco, ver),
                        m |-> [name |-> system[i].name, eco |-> eco, ver |-> ver]]))
              ELSE FlatPairs(system, eco, i + 1, acc)

\* str.strip("-+ ")
RECURSIVE StripMarkers(_)
StripMarkers(s) ==
    IF Len(s) > 0 /\ s[1] \in {"-", "+", Space} THEN StripMarkers(Tail(s))
    ELSE IF Len(s) > 0 /\ s[Len(s)] \in {"-", "+", Space}
         THEN StripMarkers(SubSeq(s, 1, Len(s) - 1))
         ELSE s

\* the commit queries of the submodules
RECURSIVE SubmoduleQueries(_, _, _)
SubmoduleQueries(submodules, i, acc) ==
    IF i > Len(submodules) THEN acc
    ELSE LET commit == StripMarkers(OrS(submodules[i].commit, <<>>)) IN
         IF Len(commit) > 0
         THEN SubmoduleQueries(submodules, i + 1, Append(acc, CommitQuery(commit)))
         ELSE SubmoduleQueries(submodules, i + 1, acc)

Queries(pairs) == [k \in 1..Len(pairs) |-> pairs[k].q]
Metas(pairs) == [k \in 1..Len(pairs) |-> pairs[k].m]

----------------------------------------------------------------------------
(* _nvd_results_to_findings.  An NVD response is [vulnerabilities |-> ..]  *)
(* of entries [id, description, cvssMetricV31, cvssMetricV30, references], *)
(* each metric list holding the cvssData of its entries (<<>> when the     *)
(* key is missing or empty).                                               *)

\* the cvssData of the first entry of the newest metric list present
FirstMetric(cve) ==
    IF Len(cve.cvssMetricV31) > 0 THEN cve.cvssMetricV31[1]
    ELSE IF Len(cve.cvssMetricV30) > 0 THEN cve.cvssMetricV30[1]
    ELSE NoCvss

NvdFinding(cve, package, version) ==
    Finding("NVD", cve.id, package, NoneT, version, cve.description, NoneT,
            FirstMetric(cve), cve.references, <<>>, <<>>)

_nvd_results_to_findings(nvd_resp, package, version) ==
    [k \in 1..Len(nvd_resp.vulnerabilities) |->
        NvdFinding(nvd_resp.vulnerabilities[k], package, version)]

----------------------------------------------------------------------------
(* _enrich_osv_with_nvd: the identifier looked up for one finding *)

\* a.startswith("CVE-")
StartsWithCve(a) == Len(a) > 0 /\ a[1] = "CVE-"

\* \d{4}-\d+ on the tokens of the model's vocabulary
YearSeqTokens == {"2023-1255", "2024-0001"}

\* re.match(r"UBUNTU-CVE-(\d{4}-\d+)$", fid)
UbuntuCve(fid) ==
    Len(fid) = 3 /\ fid[1] = "UBUNTU-" /\ fid[2] = "CVE-" /\ fid[3] \in YearSeqTokens

\* cve_ids as the code builds it
CveIds(f) ==
    LET fromAliases == SelectSeq(f.aliases, StartsWithCve)
        fid == OrS(f.id, <<>>)
    IN IF Len(fromAliases) > 0 THEN fromAliases
       ELSE IF UbuntuCve(fid) THEN << <<"CVE-", fid[3]>> >>
       ELSE IF StartsWithCve(fid) THEN <<fid>>
       ELSE <<>>

\* the test without the source: every finding without severity is looked at
EnrichAppliesAnySource(f) == ~TruthyT(f.severity)

\* the finding is one enrichment looks at
EnrichApplies(f) == f.source = "OSV" /\ ~TruthyT(f.severity)

----------------------------------------------------------------------------
(* Values the variables of an operation hold while another one is checked *)

NoDependencies ==
    [conan |-> <<>>, system |-> <<>>, system_by_stage |-> <<>>,
     submodules |-> <<>>, cmake |-> <<>>]

NoReport == [built |-> FALSE]

IdleRun ==
    /\ offline = FALSE /\ forced_ecosystem = NoneT /\ ecosystem = NoneT
    /\ dependencies = NoDependencies
    /\ pos = 1 /\ local = <<>> /\ findings = <<>> /\ vulnerabilities = <<>>
    /\ report = NoReport /\ calls = <<>> /\ raised = FALSE
IdleDedupe == items = <<>> /\ out = <<>> /\ out2 = <<>>
IdleSeverity == group = <<>> /\ labels = <<>> /\ aggregate = NoneT
IdleCpe ==
    /\ cname = <<>> /\ cversion = <<>> /\ cpe = NoneS
    /\ cresponse = [raised |-> FALSE, candidates |-> <<>>]
IdleOsv == in_meta = <<>> /\ in_resp = [results |-> <<>>] /\ nfind = <<>>

----------------------------------------------------------------------------
(* Dedupe harness: any finding sequence, deduplicated once and twice *)

MaxItems == 3

CVE1 == <<"CVE-", "2023-1255">>
CVE2 == <<"CVE-", "2024-0001">>
CVE3 == <<"CVE-", "2022-0778">>
Zlib == <<"zlib">>
Curl == <<"curl">>
Ver1 == <<"1.2.13">>
Ver2 == <<"7.74.0">>

DedupePool ==
    { Finding(src, id, pkg, NoneT, Ver1, summ, NoneT, NoCvss,
              IF summ = "s1" THEN <<"u1">> ELSE <<>>, <<>>, <<>>) :
        src \in {"OSV", "NVD"}, id \in {NoneS, <<>>, CVE1},
        pkg \in {Zlib, NoneS}, summ \in {"s1", "s2"} }

InitDedupe ==
    /\ pc = "input"
    /\ items \in SeqsUpTo(DedupePool, MaxItems)
    /\ out = <<>>
    /\ out2 = <<>>
    /\ IdleRun /\ IdleSeverity /\ IdleCpe /\ IdleOsv

DedupeOnce ==
    /\ pc = "input"
    /\ out' = _dedupe_findings(items)
    /\ pc' = "once"
    /\ UNCHANGED <<items, out2, runVars, sevVars, cpeVars, osvVars>>

DedupeTwice ==
    /\ pc = "once"
    /\ out2' = _dedupe_findings(out)
    /\ pc' = "twice"
    /\ UNCHANGED <<items, out, runVars, sevVars, cpeVars, osvVars>>

NextDedupe == DedupeOnce \/ DedupeTwice

SpecDedupe == InitDedupe /\ [][NextDedupe]_vars

----------------------------------------------------------------------------
(* C1: after _dedupe_findings no two findings of the result share an       *)
(* identity key (the id when non-empty, else (source, package, version,    *)
(* summary)).                                                              *)

\* the key as the claim states it, written without the code's `or`
ClaimKey(f) ==
    IF f.id # NoneS /\ Len(f.id) > 0
    THEN [id |-> f.id]
    ELSE [source |-> f.source, package |-> f.package,
          version |-> f.version, summary |-> f.summary]

C1_NoSharedKey ==
    pc \in {"once", "twice"} =>
        \A i, j \in 1..Len(out) : i # j => ClaimKey(out[i]) # ClaimKey(out[j])

\* the input held two findings with one key, and more than one finding survived
C1_Witness ==
    /\ pc = "once"
    /\ \E i, j \in 1..Len(items) : i # j /\ ClaimKey(items[i]) = ClaimKey(items[j])
    /\ Len(out) >= 2

(* C2: the output of _dedupe_findings is the subsequence of the input made *)
(* of the first occurrence of each identity key, in input order, every     *)
(* retained finding unchanged; later findings with a seen key are dropped  *)
(* even when their other fields differ.                                    *)

\* positions of the input whose key no earlier position has
FirstOccurrence(its) ==
    {i \in 1..Len(its) : \A j \in 1..(i - 1) : ClaimKey(its[j]) # ClaimKey(its[i])}

\* the k-th smallest element of a set of positions
RECURSIVE KthSmallest(_, _)
KthSmallest(S, k) ==
    LET m == CHOOSE x \in S : \A y \in S : x <= y IN
    IF k = 1 THEN m ELSE KthSmallest(S \ {m}, k - 1)

C2_FirstOccurrenceSubsequence ==
    pc = "once" =>
        LET keep == FirstOccurrence(items) IN
        /\ Len(out) = Cardinality(keep)
        /\ \A k \in 1..Len(out) : out[k] = items[KthSmallest(keep, k)]

\* a later finding with a seen id and another summary was dropped
C2_Witness ==
    /\ pc = "once"
    /\ \E i, j \in 1..Len(items) :
          /\ i < j
          /\ TruthyS(items[i].id)
          /\ items[i].id = items[j].id
          /\ items[i].summary # items[j].summary
    /\ Len(out) < Len(items)

(* C3: deduplication is idempotent: _dedupe_findings(_dedupe_findings(F))  *)
(* equals _dedupe_findings(F).                                             *)
C3_Idempotent == pc = "twice" => out2 = out

\* the first pass did remove something
C3_Witness == pc = "twice" /\ Len(out) < Len(items) /\ Len(out) >= 2

----------------------------------------------------------------------------
(* Severity harness: every single finding of SevPool, and every group of   *)
(* up to MaxGroup findings of GroupPool, classified and aggregated.        *)

MaxGroup == 3

SevLabels == {"LOW", "MEDIUM", "HIGH", "CRITICAL", "UNKNOWN"}

SevFinding(sev, cv) ==
    Finding("NVD", CVE1, Zlib, NoneT, Ver1, "s1", sev, cv, <<>>, <<>>, <<>>)

\* scores around every threshold
ScorePool == {NoScore, 0, 39, 40, 69, 70, 75, 89, 90, 98, 100}

SevPool ==
    { SevFinding(sev, cv) :
        sev \in {NoneT, "", "LOW", "MEDIUM", "HIGH", "CRITICAL", "high", "MODERATE"},
        cv \in {NoCvss} \cup { Cvss(b, sc) : b \in {NoneT, "", "MEDIUM", "critical"},
                                             sc \in ScorePool } }

GroupPool ==
    { SevFinding(sev, cv) :
        sev \in {NoneT, "LOW", "HIGH", "MODERATE"},
        cv \in {NoCvss, Cvss(NoneT, 98), Cvss("MEDIUM", 50)} }

InitSeverity ==
    /\ pc = "input"
    /\ group \in SeqsUpTo(GroupPool, MaxGroup) \cup { <<f>> : f \in SevPool }
    /\ labels = <<>>
    /\ aggregate = NoneT
    /\ IdleRun /\ IdleDedupe /\ IdleCpe /\ IdleOsv

\* _severity_of on every finding of the group, _highest_severity on the group
Classify ==
    /\ pc = "input"
    /\ labels' = [k \in 1..Len(group) |-> _severity_of(group[k])]
    /\ aggregate' = _highest_severity(group)
    /\ pc' = "classified"
    /\ UNCHANGED <<group, runVars, ddVars, cpeVars, osvVars>>

NextSeverity == Classify

SpecSeverity == InitSeverity /\ [][NextSeverity]_vars

\* rank of a label: UNKNOWN(-1) < LOW(0) < MEDIUM(1) < HIGH(2) < CRITICAL(3)
Rank(l) ==
    CASE l = "LOW" -> 0
      [] l = "MEDIUM" -> 1
      [] l = "HIGH" -> 2
      [] l = "CRITICAL" -> 3
      [] OTHER -> -1

(* C4: for a nonempty group the aggregate severity (_highest_severity) is  *)
(* the highest-ranked label among the labels _severity_of gives the        *)
(* group's findings, also for findings whose label comes from the numeric  *)
(* base score alone; for an empty group it is UNKNOWN.                     *)
C4_AggregateIsMaxLabel ==
    pc = "classified" =>
        IF Len(group) = 0 THEN aggregate = "UNKNOWN"
        ELSE /\ \A k \in 1..Len(labels) : Rank(labels[k]) <= Rank(aggregate)
             /\ \E k \in 1..Len(labels) : Rank(labels[k]) = Rank(aggregate)

(* C5: _severity_of returns the explicit severity label when the finding   *)
(* has one (its severity, else the baseSeverity of its score structure);   *)
(* otherwise the label of the numeric base score: >= 9.0 CRITICAL, >= 7.0  *)
(* HIGH, >= 4.0 MEDIUM, lower LOW; without label and score, UNKNOWN.       *)
C5_SeverityOf ==
    pc = "classified" =>
        \A k \in 1..Len(group) :
            LET f == group[k]
                hasSev == f.severity # NoneT /\ f.severity # ""
                hasBase == f.cvss.baseSeverity # NoneT /\ f.cvss.baseSeverity # ""
                sc == f.cvss.baseScore
            IN /\ hasSev => labels[k] = Upper(f.severity)
               /\ (~hasSev /\ hasBase) => labels[k] = Upper(f.cvss.baseSeverity)
               /\ (~hasSev /\ ~hasBase /\ sc # NoScore) =>
                      /\ (sc >= 90) => labels[k] = "CRITICAL"
                      /\ (sc >= 70 /\ sc < 90) => labels[k] = "HIGH"
                      /\ (sc >= 40 /\ sc < 70) => labels[k] = "MEDIUM"
                      /\ (sc < 40) => labels[k] = "LOW"
               /\ (~hasSev /\ ~hasBase /\ sc = NoScore) => labels[k] = "UNKNOWN"

\* a finding without any label and a score exactly on the 7.0 threshold
C5_Witness ==
    /\ pc = "classified"
    /\ \E k \in 1..Len(group) :
          /\ ~TruthyT(group[k].severity)
          /\ ~TruthyT(group[k].cvss.baseSeverity)
          /\ group[k].cvss.baseScore = 70
          /\ labels[k] = "HIGH"

----------------------------------------------------------------------------
(* Normaliser harness: a batch response and the metadata of the submitted  *)
(* keys, normalised by _osv_results_to_findings.                           *)

MaxKeys == 2

Vuln(id, summ, sevs, refs, als, aff) ==
    [id |-> id, summary |-> summ, severity |-> sevs, references |-> refs,
     aliases |-> als, affected |-> aff]

VulnHigh == Vuln(CVE1, "s1", <<"HIGH">>, <<"u1">>, <<>>, <<>>)
VulnNoSev == Vuln(CVE2, "s2", <<>>, <<>>, <<>>, <<>>)
\* "severity": [{"severity": "HIGH"}, {"type": ..}, {"severity": "LOW"}]
VulnTwoSev == Vuln(CVE3, "s3", <<"HIGH", NoneT, "LOW">>, <<>>, <<>>, <<>>)

\* metadata as _query_osv_for_system builds it: the flat fallback names the
\* package, the per-stage grouping "<stage>::<package>"; names are never empty
MetaPool ==
    { [name |-> Zlib, eco |-> "Debian", ver |-> Ver1],
      [name |-> Curl, eco |-> "Debian", ver |-> Ver2],
      [name |-> <<"builder", "::", "zlib">>, eco |-> "Ubuntu", ver |-> Ver1] }

ResultPool ==
    { [package |-> p, ecosystem |-> IF p = NoneS THEN NoneT ELSE "Alpine",
       version |-> IF p = NoneS THEN NoneS ELSE <<"9.9">>, vulns |-> vs] :
        p \in {NoneS, <<"embedded">>},
        vs \in {<<>>, <<VulnHigh>>, <<VulnHigh, VulnNoSev>>, <<VulnTwoSev>>} }

InitOsv ==
    /\ pc = "input"
    /\ in_meta \in SeqsUpTo(MetaPool, MaxKeys)
    /\ in_resp \in { [results |-> r] : r \in SeqsUpTo(ResultPool, MaxKeys) }
    /\ nfind = <<>>
    /\ IdleRun /\ IdleDedupe /\ IdleSeverity /\ IdleCpe

Normalize ==
    /\ pc = "input"
    /\ nfind' = _osv_results_to_findings(in_resp, in_meta)
    /\ pc' = "normalized"
    /\ UNCHANGED <<in_meta, in_resp, runVars, ddVars, sevVars, cpeVars>>

NextOsv == Normalize

SpecOsv == InitOsv /\ [][NextOsv]_vars

\* number of vulnerability entries of the results before result i
RECURSIVE VulnsBefore(_, _)
VulnsBefore(results, i) ==
    IF i <= 1 THEN 0
    ELSE VulnsBefore(results, i - 1) + Len(results[i - 1].vulns)

(* C7: when the results array is positionally aligned with the N submitted *)
(* keys, every finding derived from result index i carries the package,    *)
(* ecosystem and version of the metadata at index i, and of no other.      *)
C7_Attribution ==
    (pc = "normalized" /\ Len(in_meta) > 0 /\ Len(in_resp.results) = Len(in_meta)) =>
        LET results == in_resp.results IN
        /\ Len(nfind) = VulnsBefore(results, Len(results) + 1)
        /\ \A i \in 1..Len(results) :
              \A k \in 1..Len(results[i].vulns) :
                  LET f == nfind[VulnsBefore(results, i) + k] IN
                  /\ f.package = in_meta[i].name
                  /\ f.ecosystem = in_meta[i].eco
                  /\ f.version = in_meta[i].ver
                  /\ f.id = results[i].vulns[k].id

\* two keys with different metadata, both results with findings, the results
\* embedding another package name
C7_Witness ==
    /\ pc = "normalized"
    /\ Len(in_meta) = 2 /\ Len(in_resp.results) = 2
    /\ in_meta[1] # in_meta[2]
    /\ Len(in_resp.results[1].vulns) = 2 /\ Len(in_resp.results[2].vulns) = 1
    /\ in_resp.results[2].package # NoneS
    /\ Len(nfind) = 3
    /\ nfind[3].package = in_meta[2].name

\* the first entry of a severity list that provides a severity, None when
\* no entry does
FirstSeverity(sevs) ==
    IF \E i \in 1..Len(sevs) : TruthyT(sevs[i])
    THEN sevs[CHOOSE i \in 1..Len(sevs) :
                  TruthyT(sevs[i]) /\ \A j \in 1..(i - 1) : ~TruthyT(sevs[j])]
    ELSE NoneT

(* C12: the severity of the finding emitted for a vulnerability entry is   *)
(* the value of the first entry of its severity list that provides one;    *)
(* later entries never override it, and it is None when no entry provides  *)
(* one.                                                                    *)
C12_FirstSeverityWins ==
    pc = "normalized" =>
        LET results == in_resp.results IN
        \A i \in 1..Len(results) :
            \A k \in 1..Len(results[i].vulns) :
                nfind[VulnsBefore(results, i) + k].severity
                    = FirstSeverity(results[i].vulns[k].severity)

\* Scenario B: keys for zlib and curl, the first result with one entry of
\* severity HIGH, the second with none
ScenarioB ==
    /\ in_meta = << [name |-> Zlib, eco |-> "Debian", ver |-> Ver1],
                    [name |-> Curl, eco |-> "Debian", ver |-> Ver2] >>
    /\ Len(in_resp.results) = 2
    /\ in_resp.results[1].vulns = <<VulnHigh>>
    /\ in_resp.results[2].vulns = <<>>

(* C21: the normalizer emits exactly one finding per vulnerability entry   *)
(* nested under each result, in order, and none for a result without       *)
(* entries, so the number of findings is the total number of entries; a    *)
(* response without entries yields no finding; in Scenario B the only      *)
(* finding is the one for zlib, with severity HIGH.                        *)
C21_OneFindingPerEntry ==
    pc = "normalized" =>
        LET results == in_resp.results IN
        /\ Len(nfind) = VulnsBefore(results, Len(results) + 1)
        /\ \A i \in 1..Len(results) :
              \A k \in 1..Len(results[i].vulns) :
                  LET f == nfind[VulnsBefore(results, i) + k] IN
                  /\ f.source = "OSV"
                  /\ f.id = results[i].vulns[k].id
                  /\ f.summary = results[i].vulns[k].summary
        /\ (\A i \in 1..Len(results) : results[i].vulns = <<>>) => nfind = <<>>
        /\ ScenarioB =>
              /\ Len(nfind) = 1
              /\ nfind[1].package = Zlib
              /\ nfind[1].id = VulnHigh.id
              /\ nfind[1].severity = "HIGH"

\* Scenario B has been normalized
C21_Witness ==
    /\ pc = "normalized"
    /\ ScenarioB
    /\ Len(nfind) = 1

----------------------------------------------------------------------------
(* Identifier harness: guess_cpe_for_conan on a name, a version and an     *)
(* outcome of the keyword search.                                          *)

MaxCandidates == 2

OpenSsl == <<"open", "ssl">>

\* cpeName of a candidate with the given class, vendor, product and n fields
CpeName(class, vendor, product, n) ==
    Join(SubSeq(<<<<"cpe">>, <<"2.3">>, class, vendor, product>>
                    \o [k \in 1..10 |-> Star], 1, n))

CandidatePool ==
    { NoneS,
      CpeName(<<"a">>, OpenSsl, OpenSsl, 13),
      CpeName(<<"a">>, <<"Open", "SSL">>, <<"toolkit">>, 5),
      CpeName(<<"o">>, OpenSsl, OpenSsl, 13),
      CpeName(<<"a">>, <<"acme">>, <<"lib", "open", "ssl">>, 14),
      CpeName(<<"a">>, <<"acme">>, <<"zlib">>, 13),
      CpeName(<<"a">>, OpenSsl, OpenSsl, 4),
      CpeName(<<"a">>, <<"open", "ssl", "_project">>, <<"toolkit">>, 13) }

NamePool == {OpenSsl, <<"Open", "SSL">>, Zlib, <<"boost">>}

\* "1.1.1f", "", and a version with an epoch, "1:1.1.1f"
VersionPool == {<<"1.1.1f">>, <<>>, <<"1", ":", "1.1.1f">>}

InitCpe ==
    /\ pc = "input"
    /\ cname \in NamePool
    /\ cversion \in VersionPool
    /\ cresponse \in
          {[raised |-> TRUE, candidates |-> <<>>]} \cup
          { [raised |-> FALSE, candidates |-> c] :
                c \in SeqsUpTo(CandidatePool, MaxCandidates) }
    /\ cpe = NoneS
    /\ IdleRun /\ IdleDedupe /\ IdleSeverity /\ IdleOsv

GuessCpe ==
    /\ pc = "input"
    /\ cpe' = guess_cpe_for_conan(cname, cversion, cresponse)
    /\ pc' = "guessed"
    /\ UNCHANGED <<cname, cversion, cresponse, runVars, ddVars, sevVars, osvVars>>

NextCpe == GuessCpe

SpecCpe == InitCpe /\ [][NextCpe]_vars

(* C8: every structured identifier guess_cpe_for_conan returns has exactly *)
(* 13 colon-delimited fields with the supplied version in field index 5    *)
(* ("*" standing for an empty version).                                    *)
C8_ThirteenFields ==
    (pc = "guessed" /\ cpe # NoneS) =>
        /\ Len(Split(cpe)) = 13
        /\ Split(cpe)[6] = (IF cversion = <<>> THEN Star ELSE cversion)

\* the candidate qualifies as the claim has it: class "a", and the vendor
\* or the product field equals or contains the name, case ignored
ClaimEligible(cpe23, name) ==
    /\ cpe23 # NoneS
    /\ LET parts == Split(cpe23)
           n == Lower(name)
       IN /\ Len(parts) >= 5
          /\ parts[3] = <<"a">>
          /\ \/ Lower(parts[4]) = n \/ Contains(n, Lower(parts[4]))
             \/ Lower(parts[5]) = n \/ Contains(n, Lower(parts[5]))

(* C19: resolution selects a candidate only if its class field marks an    *)
(* application and its vendor or product field equals or contains the      *)
(* package name, case ignored; every such candidate is eligible, so the    *)
(* result is empty exactly when the search failed or returned no such      *)
(* candidate.                                                              *)
C19_Eligibility ==
    pc = "guessed" =>
        LET cands == cresponse.candidates
            eligible == {i \in 1..Len(cands) : ClaimEligible(cands[i], cname)}
        IN /\ cpe # NoneS =>
                \E i \in eligible :
                    SubSeq(Split(cpe), 1, 5) = SubSeq(Split(cands[i]), 1, 5)
           /\ (~cresponse.raised /\ eligible # {}) => cpe # NoneS

----------------------------------------------------------------------------
(* The run: _check_vulnerabilities and _generate_report, one action per    *)
(* network request (its outcome chosen by the environment) or loop step.   *)
(* The initial state is the checker after the _collect_* methods: an       *)
(* inventory as they build it, nothing queried yet.                        *)

\* the requests of one run return at most MaxFindings findings in all
MaxFindings == 3

Pkg(name, version) == [name |-> name, version |-> version]

StageBuilder ==
    [stage |-> <<"builder">>, ecosystem |-> "Ubuntu",
     apt |-> <<Pkg(Zlib, Ver1)>>, apk |-> <<>>]
StageRuntime ==
    [stage |-> <<"runtime">>, ecosystem |-> "Debian",
     apt |-> <<Pkg(Curl, Ver2), Pkg(OpenSsl, <<"system">>)>>, apk |-> <<>>]
StageAlpine ==
    [stage |-> <<"alpine">>, ecosystem |-> "Alpine",
     apt |-> <<>>,
     apk |-> <<Pkg(<<"musl">>, <<"1.2.4">>), Pkg(Curl, <<"unknown">>),
               Pkg(Zlib, <<"required">>)>>]
StageScratch ==
    [stage |-> <<"scratch">>, ecosystem |-> NoneT,
     apt |-> <<Pkg(Zlib, Ver1)>>, apk |-> <<>>]

\* the stages of the Dockerfile (none: no Dockerfile)
\* "RUN apk add musl=1.2.4 curl zlib=required": _packages_from_stage takes
\* the text after "=" as the version and "unknown" for a package without
StageLists ==
    { <<>>, <<StageBuilder>>, <<StageBuilder, StageRuntime>>,
      <<StageScratch, StageRuntime>>, <<StageAlpine>> }

\* find_package entries of CMakeLists.txt with the versions
\* _get_cmake_package_version reports
CmakeLists ==
    { <<>>,
      <<Pkg(<<"ZLIB">>, <<"1.3", Space, "(installed)">>),
        Pkg(<<"OpenSSL">>, <<"required">>)>> }

ConanLists ==
    { <<>>,
      <<Pkg(OpenSsl, <<"1.1.1f">>)>>,
      <<Pkg(OpenSsl, <<"1.1.1f">>), Pkg(Zlib, Ver1)>>,
      <<Pkg(<<"boost">>, <<"Unknown">>), Pkg(Zlib, Ver1)>> }

SubmoduleLists ==
    { <<>>,
      <<[name |-> <<"sub">>, commit |-> <<"+", "abc123">>]>>,
      <<[name |-> <<"sub">>, commit |-> NoneS]>> }

\* _collect_system_dependencies: the flat map gets the CMake packages, then
\* every apt package of a stage whose name it does not hold yet
RECURSIVE ProjectApt(_, _, _)
ProjectApt(system, apt, i) ==
    IF i > Len(apt) THEN system
    ELSE IF \E k \in 1..Len(system) : system[k].name = apt[i].name
         THEN ProjectApt(system, apt, i + 1)
         ELSE ProjectApt(Append(system, apt[i]), apt, i + 1)

RECURSIVE ProjectStages(_, _, _)
ProjectStages(system, stages, i) ==
    IF i > Len(stages) THEN system
    ELSE ProjectStages(ProjectApt(system, stages[i].apt, 1), stages, i + 1)

\* self.ecosystem = ecosystem or self._infer_ecosystem_from_dockerfile()
InferEcosystem(forced, stages) ==
    IF TruthyT(forced) THEN forced
    ELSE IF Len(stages) > 0 THEN stages[Len(stages)].ecosystem
    ELSE NoneT

Init ==
    /\ pc = "osv_system"
    /\ offline \in BOOLEAN
    /\ forced_ecosystem \in {NoneT, "Debian"}
    /\ \E stages \in StageLists, cm \in CmakeLists,
          conan \in ConanLists, subs \in SubmoduleLists :
          /\ ecosystem = InferEcosystem(forced_ecosystem, stages)
          /\ dependencies =
                [conan |-> conan, system |-> ProjectStages(cm, stages, 1),
                 system_by_stage |-> stages, submodules |-> subs, cmake |-> <<>>]
    /\ pos = 1
    /\ local = <<>>
    /\ findings = <<>>
    /\ vulnerabilities = <<>>
    /\ report = NoReport
    /\ calls = <<>>
    /\ raised = FALSE
    /\ IdleDedupe /\ IdleSeverity /\ IdleCpe /\ IdleOsv

----------------------------------------------------------------------------
(* Outcomes of the requests *)

Fixed13 == <<"1.3">>

Event(fixed, limit) == [fixed |-> fixed, limit |-> limit]
\* events: "list" with its entries, or the key missing from the range
Range1(key, events) == [key |-> key, events |-> events]
Affected(ranges) == [ranges |-> ranges]

AffectedFixed13 ==
    <<Affected(<<Range1("list", <<Event(NoneS, NoneS), Event(Fixed13, NoneS)>>)>>)>>

RunVulnHigh == Vuln(CVE1, "s1", <<"HIGH">>, <<"u1">>, <<>>, AffectedFixed13)
RunVulnNoSev == Vuln(CVE2, "s2", <<>>, <<>>, <<>>, <<>>)
\* an advisory one of whose ranges has "events": []
RunVulnNoEvents ==
    Vuln(CVE3, "s3", <<"LOW">>, <<>>, <<>>, <<Affected(<<Range1("list", <<>>)>>)>>)

\* the vulnerabilities the batch service reports for one query
RunVulnLists ==
    { <<>>, <<RunVulnHigh>>, <<RunVulnNoSev>>, <<RunVulnHigh, RunVulnNoSev>>,
      <<RunVulnNoEvents>> }

\* a result of the batch service: the vulnerabilities of one query
ResultsFor(queries) ==
    [1..Len(queries) ->
        { [package |-> NoneS, ecosystem |-> NoneT, version |-> NoneS, vulns |-> vs] :
            vs \in RunVulnLists }]

\* the run has room for the findings fs
Room(fs) == Len(findings) + Len(local) + Len(fs) <= MaxFindings

\* osv.query_batch: an exception (timeout, HTTP error, malformed body), or
\* a response with one result per query
BatchOutcomes(queries) ==
    {[raised |-> TRUE, results |-> <<>>]} \cup
    { [raised |-> FALSE, results |-> r] : r \in ResultsFor(queries) }

BatchCall(grp, queries, o) ==
    [api |-> "osv.query_batch", group |-> grp, queries |-> queries, ok |-> ~o.raised]

----------------------------------------------------------------------------
(* _query_osv_for_system *)

Stages == dependencies.system_by_stage

\* the function returns [] without a request: offline, or the flat fallback
\* without ecosystem or without a usable package
SystemReturnsEmpty ==
    /\ pc = "osv_system"
    /\ \/ offline
       \/ /\ Len(Stages) = 0
          /\ \/ ~TruthyT(ecosystem)
             \/ FlatPairs(dependencies.system, ecosystem, 1, <<>>) = <<>>
    /\ pc' = "osv_submodules"
    /\ UNCHANGED <<offline, forced_ecosystem, ecosystem, dependencies, pos, local,
                   findings, vulnerabilities, report, calls, raised, unitVars>>

\* a stage without recognised ecosystem or without queries is passed over
StageSkip ==
    /\ pc = "osv_system" /\ ~offline
    /\ pos <= Len(Stages)
    /\ StagePairs(Stages[pos]) = <<>>
    /\ pos' = pos + 1
    /\ UNCHANGED <<pc, offline, forced_ecosystem, ecosystem, dependencies, local,
                   findings, vulnerabilities, report, calls, raised, unitVars>>

\* the batched request of one stage, attempted once more after a failure
StageQueryRetrying ==
    /\ pc = "osv_system" /\ ~offline
    /\ pos <= Len(Stages)
    /\ LET pairs == StagePairs(Stages[pos])
           first == \A i \in 1..Len(calls) :
                       calls[i].api = "osv.query_batch" => calls[i].group # Stages[pos].stage
       IN
       /\ pairs # <<>>
       /\ \E o \in BatchOutcomes(Queries(pairs)) :
             /\ Room(_osv_results_to_findings(o, Metas(pairs)))
             /\ calls' = Append(calls, BatchCall(Stages[pos].stage, Queries(pairs), o))
             /\ local' = IF o.raised THEN local
                         ELSE local \o _osv_results_to_findings(o, Metas(pairs))
             /\ pos' = IF o.raised /\ first THEN pos ELSE pos + 1
    /\ UNCHANGED <<pc, offline, forced_ecosystem, ecosystem, dependencies,
                   findings, vulnerabilities, report, raised, unitVars>>

\* the batched request of one stage with the try/except around the whole
\* loop: a failure drops the stages' findings and ends the loop
StageQueryAborting ==
    /\ pc = "osv_system" /\ ~offline
    /\ pos <= Len(Stages)
    /\ LET pairs == StagePairs(Stages[pos]) IN
       /\ pairs # <<>>
       /\ \E o \in BatchOutcomes(Queries(pairs)) :
             /\ Room(_osv_results_to_findings(o, Metas(pairs)))
             /\ calls' = Append(calls, BatchCall(Stages[pos].stage, Queries(pairs), o))
             /\ local' = IF o.raised THEN <<>>
                         ELSE local \o _osv_results_to_findings(o, Metas(pairs))
             /\ pos' = IF o.raised THEN Len(Stages) + 1 ELSE pos + 1
    /\ UNCHANGED <<pc, offline, forced_ecosystem, ecosystem, dependencies,
                   findings, vulnerabilities, report, raised, unitVars>>

\* the batched request of one stage, inside its own try/except
StageQuery ==
    /\ pc = "osv_system" /\ ~offline
    /\ pos <= Len(Stages)
    /\ LET pairs == StagePairs(Stages[pos]) IN
       /\ pairs # <<>>
       /\ \E o \in BatchOutcomes(Queries(pairs)) :
             /\ Room(_osv_results_to_findings(o, Metas(pairs)))
             /\ calls' = Append(calls, BatchCall(Stages[pos].stage, Queries(pairs), o))
             /\ local' = IF o.raised THEN local
                         ELSE local \o _osv_results_to_findings(o, Metas(pairs))
    /\ pos' = pos + 1
    /\ UNCHANGED <<pc, offline, forced_ecosystem, ecosystem, dependencies,
                   findings, vulnerabilities, report, raised, unitVars>>

\* after the last stage: return findings (extended into the caller's list)
StagesReturn ==
    /\ pc = "osv_system" /\ ~offline
    /\ Len(Stages) > 0 /\ pos > Len(Stages)
    /\ findings' = findings \o local
    /\ local' = <<>>
    /\ pos' = 1
    /\ pc' = "osv_submodules"
    /\ UNCHANGED <<offline, forced_ecosystem, ecosystem, dependencies,
                   vulnerabilities, report, calls, raised, unitVars>>

\* the flat fallback: one batched request, its exception caught by
\* _check_vulnerabilities
FallbackQuery ==
    /\ pc = "osv_system" /\ ~offline
    /\ Len(Stages) = 0 /\ TruthyT(ecosystem)
    /\ LET pairs == FlatPairs(dependencies.system, ecosystem, 1, <<>>) IN
       /\ pairs # <<>>
       /\ \E o \in BatchOutcomes(Queries(pairs)) :
             /\ Room(_osv_results_to_findings(o, Metas(pairs)))
             /\ calls' = Append(calls, BatchCall(<<"system">>, Queries(pairs), o))
             /\ findings' = IF o.raised THEN findings
                            ELSE findings \o _osv_results_to_findings(o, Metas(pairs))
    /\ pc' = "osv_submodules"
    /\ UNCHANGED <<offline, forced_ecosystem, ecosystem, dependencies, pos, local,
                   vulnerabilities, report, raised, unitVars>>

----------------------------------------------------------------------------
(* _query_osv_for_submodules *)

SubmodulesReturnEmpty ==
    /\ pc = "osv_submodules"
    /\ offline \/ SubmoduleQueries(dependencies.submodules, 1, <<>>) = <<>>
    /\ pc' = "nvd_conan"
    /\ UNCHANGED <<offline, forced_ecosystem, ecosystem, dependencies, pos, local,
                   findings, vulnerabilities, report, calls, raised, unitVars>>

\* the request for the pinned commits without the offline test
SubmodulesQueryAlways ==
    /\ pc = "osv_submodules"
    /\ LET queries == SubmoduleQueries(dependencies.submodules, 1, <<>>) IN
       /\ queries # <<>>
       /\ \E o \in BatchOutcomes(queries) :
             /\ Room(_osv_results_to_findings(o, <<>>))
             /\ calls' = Append(calls, BatchCall(<<"submodules">>, queries, o))
             /\ findings' = IF o.raised THEN findings
                            ELSE findings \o _osv_results_to_findings(o, <<>>)
    /\ pc' = "nvd_conan"
    /\ UNCHANGED <<offline, forced_ecosystem, ecosystem, dependencies, pos, local,
                   vulnerabilities, report, raised, unitVars>>

\* one batched request for the pinned commits, normalised without meta
SubmodulesQuery ==
    /\ pc = "osv_submodules" /\ ~offline
    /\ LET queries == SubmoduleQueries(dependencies.submodules, 1, <<>>) IN
       /\ queries # <<>>
       /\ \E o \in BatchOutcomes(queries) :
             /\ Room(_osv_results_to_findings(o, <<>>))
             /\ calls' = Append(calls, BatchCall(<<"submodules">>, queries, o))
             /\ findings' = IF o.raised THEN findings
                            ELSE findings \o _osv_results_to_findings(o, <<>>)
    /\ pc' = "nvd_conan"
    /\ UNCHANGED <<offline, forced_ecosystem, ecosystem, dependencies, pos, local,
                   vulnerabilities, report, raised, unitVars>>

----------------------------------------------------------------------------
(* _query_nvd_for_conan *)

NvdCve(id, descr, v31, v30, refs) ==
    [id |-> id, description |-> descr, cvssMetricV31 |-> v31,
     cvssMetricV30 |-> v30, references |-> refs]

\* an entry with a CVSS v3.1 metric of base score 7.5, HIGH
NvdCveHigh == NvdCve(CVE1, "d1", <<Cvss("HIGH", 75)>>, <<>>, <<"n1">>)
\* an entry whose only metric is a v3.0 base score, without baseSeverity
NvdCveScoreOnly == NvdCve(CVE3, "d3", <<>>, <<Cvss(NoneT, 98)>>, <<>>)

\* an entry whose v3.1 metric holds the base score 7.5 alone
NvdCveScore75 == NvdCve(CVE1, "d1", <<Cvss(NoneT, 75)>>, <<>>, <<>>)

NvdVulnPool == {NvdCveHigh, NvdCveScoreOnly}

\* nvd.find_cpe_candidates(keyword): an exception, or the cpeName values of
\* the products returned
KeywordOutcomes(keyword) ==
    {[raised |-> TRUE, candidates |-> <<>>]} \cup
    { [raised |-> FALSE, candidates |-> c] :
        c \in { <<>>,
                <<CpeName(<<"o">>, keyword, keyword, 13)>>,
                <<CpeName(<<"a">>, keyword, keyword, 13)>> } }

\* nvd.cves_by_cpe(cpe): an exception, or a response
LookupOutcomes ==
    {[raised |-> TRUE, vulnerabilities |-> <<>>]} \cup
    { [raised |-> FALSE, vulnerabilities |-> vs] :
        vs \in {<<>>, <<NvdCveHigh>>, <<NvdCveScoreOnly>>} }

KeywordCall(keyword, o) ==
    [api |-> "nvd.find_cpe_candidates", keyword |-> keyword, ok |-> ~o.raised]
CpeCall(cpeName, o) ==
    [api |-> "nvd.cves_by_cpe", cpeName |-> cpeName, ok |-> ~o.raised]
CveCall(cveId, o) ==
    [api |-> "nvd.cve", cveId |-> cveId, ok |-> ~o.raised]

Conan == dependencies.conan

\* ver is empty or "unknown": the dependency is passed over
ConanUsable(ver) == TruthyS(ver) /\ Lower(ver) # <<"unknown">>

ConanSkip ==
    /\ pc = "nvd_conan" /\ ~offline
    /\ pos <= Len(Conan)
    /\ ~ConanUsable(_clean_version(Conan[pos].version))
    /\ pos' = pos + 1
    /\ UNCHANGED <<pc, offline, forced_ecosystem, ecosystem, dependencies, local,
                   findings, vulnerabilities, report, calls, raised, unitVars>>

\* the keyword search yields no identifier: nothing is looked up
ConanUnresolved ==
    /\ pc = "nvd_conan" /\ ~offline
    /\ pos <= Len(Conan)
    /\ LET name == Conan[pos].name
           ver == _clean_version(Conan[pos].version)
       IN /\ ConanUsable(ver)
          /\ \E ko \in KeywordOutcomes(name) :
                /\ guess_cpe_for_conan(name, ver, ko) = NoneS
                /\ calls' = Append(calls, KeywordCall(name, ko))
    /\ pos' = pos + 1
    /\ UNCHANGED <<pc, offline, forced_ecosystem, ecosystem, dependencies, local,
                   findings, vulnerabilities, report, raised, unitVars>>

\* the identifier is looked up; an exception of cves_by_cpe leaves the
\* function and is caught by _check_vulnerabilities
ConanLookup ==
    /\ pc = "nvd_conan" /\ ~offline
    /\ pos <= Len(Conan)
    /\ LET name == Conan[pos].name
           ver == _clean_version(Conan[pos].version)
       IN /\ ConanUsable(ver)
          /\ \E ko \in KeywordOutcomes(name), lo \in LookupOutcomes :
                LET cpeName == guess_cpe_for_conan(name, ver, ko) IN
                /\ cpeName # NoneS
                /\ Room(lo.vulnerabilities)
                /\ calls' = calls \o <<KeywordCall(name, ko), CpeCall(cpeName, lo)>>
                /\ IF lo.raised
                   THEN /\ local' = <<>>
                        /\ pos' = 1
                        /\ pc' = "enrich"
                   ELSE /\ local' = local \o _nvd_results_to_findings(lo, name, ver)
                        /\ pos' = pos + 1
                        /\ pc' = pc
    /\ UNCHANGED <<offline, forced_ecosystem, ecosystem, dependencies,
                   findings, vulnerabilities, report, raised, unitVars>>

\* return findings ([] at once when offline)
ConanReturn ==
    /\ pc = "nvd_conan"
    /\ offline \/ pos > Len(Conan)
    /\ findings' = findings \o local
    /\ local' = <<>>
    /\ pos' = 1
    /\ pc' = "enrich"
    /\ UNCHANGED <<offline, forced_ecosystem, ecosystem, dependencies,
                   vulnerabilities, report, calls, raised, unitVars>>

----------------------------------------------------------------------------
(* _enrich_osv_with_nvd, one finding per step *)

\* session.get(CVE_URL, cveId).json(): an exception, no entry, or an entry
EnrichOutcomes ==
    { [raised |-> TRUE, vulnerabilities |-> <<>>],
      [raised |-> FALSE, vulnerabilities |-> <<>>],
      [raised |-> FALSE, vulnerabilities |-> <<NvdCveHigh>>],
      [raised |-> FALSE, vulnerabilities |-> <<NvdCveScore75>>] }

\* the finding after a lookup that also takes the label of the metric as
\* the finding's severity
EnrichedWithSeverity(f, o) ==
    IF o.raised \/ Len(o.vulnerabilities) = 0 THEN f
    ELSE LET cve == o.vulnerabilities[1] IN
         IF Len(cve.cvssMetricV31) > 0 \/ Len(cve.cvssMetricV30) > 0
         THEN [f EXCEPT !.cvss = FirstMetric(cve),
                        !.severity = FirstMetric(cve).baseSeverity]
         ELSE f

\* the finding after a lookup with outcome o
Enriched(f, o) ==
    IF o.raised \/ Len(o.vulnerabilities) = 0 THEN f
    ELSE LET cve == o.vulnerabilities[1] IN
         IF Len(cve.cvssMetricV31) > 0 \/ Len(cve.cvssMetricV30) > 0
         THEN [f EXCEPT !.cvss = FirstMetric(cve)]
         ELSE f

EnrichSkip ==
    /\ pc = "enrich"
    /\ pos <= Len(findings)
    /\ ~EnrichApplies(findings[pos]) \/ CveIds(findings[pos]) = <<>>
    /\ pos' = pos + 1
    /\ UNCHANGED <<pc, offline, forced_ecosystem, ecosystem, dependencies, local,
                   findings, vulnerabilities, report, calls, raised, unitVars>>

EnrichLookup ==
    /\ pc = "enrich"
    /\ pos <= Len(findings)
    /\ EnrichApplies(findings[pos])
    /\ CveIds(findings[pos]) # <<>>
    /\ \E o \in EnrichOutcomes :
          /\ calls' = Append(calls, CveCall(CveIds(findings[pos])[1], o))
          /\ findings' = [findings EXCEPT ![pos] = Enriched(findings[pos], o)]
    /\ pos' = pos + 1
    /\ UNCHANGED <<pc, offline, forced_ecosystem, ecosystem, dependencies, local,
                   vulnerabilities, report, raised, unitVars>>

\* the loop is left before its last finding
EnrichDoneEarly ==
    /\ pc = "enrich"
    /\ pos' = 1
    /\ pc' = "dedupe"
    /\ UNCHANGED <<offline, forced_ecosystem, ecosystem, dependencies, local,
                   findings, vulnerabilities, report, calls, raised, unitVars>>

EnrichDone ==
    /\ pc = "enrich"
    /\ pos > Len(findings)
    /\ pos' = 1
    /\ pc' = "dedupe"
    /\ UNCHANGED <<offline, forced_ecosystem, ecosystem, dependencies, local,
                   findings, vulnerabilities, report, calls, raised, unitVars>>

\* self.vulnerabilities = self._dedupe_findings(findings)
Dedupe ==
    /\ pc = "dedupe"
    /\ vulnerabilities' = _dedupe_findings(findings)
    /\ pc' = "report"
    /\ UNCHANGED <<offline, forced_ecosystem, ecosystem, dependencies, pos, local,
                   findings, report, calls, raised, unitVars>>

----------------------------------------------------------------------------
(* _generate_report and the per-package part of _generate_recommendations. *)
(* The General, CI, Policy, Container and Build records depend on project  *)
(* files only and are not part of the model's report.                      *)

\* position of a token in Python's str order; no token of the vocabulary is
\* a prefix of another, so token strings compare token by token
TokRank(t) ==
    CASE t = "*" -> 0
      [] t = "1.1.1f" -> 1
      [] t = "1.2.13" -> 2
      [] t = "1.2.4" -> 3
      [] t = "1.3" -> 4
      [] t = "7.74.0" -> 5
      [] t = "::" -> 6
      [] t = "OpenSSL" -> 7
      [] t = "ZLIB" -> 8
      [] t = "alpine" -> 9
      [] t = "boost" -> 10
      [] t = "builder" -> 11
      [] t = "curl" -> 12
      [] t = "musl" -> 13
      [] t = "open" -> 14
      [] t = "runtime" -> 15
      [] t = "scratch" -> 16
      [] t = "ssl" -> 17
      [] t = "sub" -> 18
      [] t = "unknown" -> 19
      [] t = "zlib" -> 20
      [] OTHER -> 21

\* a < b for str
RECURSIVE StrLess(_, _)
StrLess(a, b) ==
    IF Len(b) = 0 THEN FALSE
    ELSE IF Len(a) = 0 THEN TRUE
    ELSE IF a[1] = b[1] THEN StrLess(Tail(a), Tail(b))
    ELSE TokRank(a[1]) < TokRank(b[1])

\* sorted(S) for a set of str
RECURSIVE Sorted(_)
Sorted(S) ==
    IF S = {} THEN <<>>
    ELSE LET m == CHOOSE x \in S : \A y \in S \ {x} : StrLess(x, y)
         IN <<m>> \o Sorted(S \ {m})

\* r.get("events", [{}])[-1] raises: the list is empty, or null
RangeRaises(r) == r.key = "null" \/ (r.key = "list" /\ Len(r.events) = 0)

\* the values one range adds: every truthy "fixed", and the "limit" of the
\* last event
RangeFixed(r) ==
    { r.events[k].fixed : k \in {j \in 1..Len(r.events) : TruthyS(r.events[j].fixed)} }
    \cup (IF Len(r.events) > 0 /\ TruthyS(r.events[Len(r.events)].limit)
          THEN {r.events[Len(r.events)].limit} ELSE {})

FixedVersionsRaises(v) ==
    \E a \in 1..Len(v.affected) :
        \E k \in 1..Len(v.affected[a].ranges) : RangeRaises(v.affected[a].ranges[k])

\* sorted(fixed)
_osv_fixed_versions(v) ==
    Sorted(UNION { UNION { RangeFixed(v.affected[a].ranges[k]) :
                             k \in 1..Len(v.affected[a].ranges) } :
                   a \in 1..Len(v.affected) })

\* v.get("package") or "unknown"
PackageOf(v) == OrS(v.package, <<"unknown">>)

InMap(deps, pkg) == \E k \in 1..Len(deps) : deps[k].name = pkg

Action(kind, pkg, fixed) == [kind |-> kind, pkg |-> pkg, fixed |-> fixed]

\* the action text, by the map that holds the package
ActionFor(pkg, fixed_candidates, eco, deps) ==
    IF eco \in {"Ubuntu", "Debian"} /\ InMap(deps.system, pkg)
    THEN (IF Len(fixed_candidates) > 0
          THEN Action("apt_only_upgrade", pkg, NoneS)
          ELSE Action("apt_security_updates", pkg, NoneS))
    ELSE IF InMap(deps.conan, pkg)
    THEN (IF Len(fixed_candidates) > 0
          THEN Action("conan_bump", pkg, fixed_candidates[1])
          ELSE Action("conan_update_reference", pkg, NoneS))
    ELSE IF InMap(deps.submodules, pkg)
    THEN Action("submodule_update", pkg, NoneS)
    ELSE Action("vendor_patch", pkg, NoneS)

\* {"CRITICAL": ..., "HIGH": ..., "MEDIUM": ...}.get(sev, "LOW")
PriorityOf(sev) == IF sev \in {"CRITICAL", "HIGH", "MEDIUM"} THEN sev ELSE "LOW"

PackageRecommendation(pkg, vulns, eco, deps) ==
    LET osv == SelectSeq(vulns, LAMBDA v : v.source = "OSV")
        fixed_candidates ==
            Sorted((UNION { Range(_osv_fixed_versions(osv[k])) : k \in 1..Len(osv) })
                   \ {<<>>, NoneS, Star})
    IN [priority |-> PriorityOf(_highest_severity(vulns)),
        category |-> "Package",
        package |-> pkg,
        fixed_candidates |-> fixed_candidates,
        action |-> ActionFor(pkg, fixed_candidates, eco, deps)]

\* one record per package, in sorted order of the package names
PackageRecommendations(vulns, eco, deps) ==
    LET pkgs == Sorted({ PackageOf(vulns[k]) : k \in 1..Len(vulns) }) IN
    [n \in 1..Len(pkgs) |->
        PackageRecommendation(pkgs[n],
            SelectSeq(vulns, LAMBDA v : PackageOf(v) = pkgs[n]), eco, deps)]

\* a fixed-version extraction of the synthesis raises
RecommendationsRaise(vulns) ==
    \E k \in 1..Len(vulns) : vulns[k].source = "OSV" /\ FixedVersionsRaises(vulns[k])

CountOf(vulns, label) ==
    Cardinality({k \in 1..Len(vulns) : _severity_of(vulns[k]) = label})

\* sum(len(deps) for deps in self.dependencies.values())
TotalDependencies(deps) ==
    Len(deps.conan) + Len(deps.system) + Len(deps.submodules)
        + Len(deps.cmake) + Len(deps.system_by_stage)

BuildReport(vulns, eco, deps) ==
    [built |-> TRUE,
     summary |-> [total_dependencies |-> TotalDependencies(deps),
                  vulnerabilities_found |-> Len(vulns),
                  critical_count |-> CountOf(vulns, "CRITICAL"),
                  high_count |-> CountOf(vulns, "HIGH"),
                  medium_count |-> CountOf(vulns, "MEDIUM"),
                  low_count |-> CountOf(vulns, "LOW")],
     vulnerabilities |-> vulns,
     recommendations |-> PackageRecommendations(vulns, eco, deps)]

\* report = self._generate_report(); an exception of the synthesis leaves
\* run_security_check
GenerateReport ==
    /\ pc = "report"
    /\ IF RecommendationsRaise(vulnerabilities)
       THEN /\ raised' = TRUE
            /\ pc' = "raised"
            /\ UNCHANGED report
       ELSE /\ report' = BuildReport(vulnerabilities, ecosystem, dependencies)
            /\ pc' = "done"
            /\ UNCHANGED raised
    /\ UNCHANGED <<offline, forced_ecosystem, ecosystem, dependencies, pos, local,
                   findings, vulnerabilities, calls, unitVars>>

Next ==
    \/ SystemReturnsEmpty \/ StageSkip \/ StageQuery \/ StagesReturn \/ FallbackQuery
    \/ SubmodulesReturnEmpty \/ SubmodulesQuery
    \/ ConanSkip \/ ConanUnresolved \/ ConanLookup \/ ConanReturn
    \/ EnrichSkip \/ EnrichLookup \/ EnrichDone
    \/ Dedupe
    \/ GenerateReport

Spec == Init /\ [][Next]_vars

----------------------------------------------------------------------------
(* Properties of the run *)

\* the three query functions have returned
Queried == pc \in {"enrich", "dedupe", "report", "done", "raised"}

\* a step that issues a request, and the request it issues last
Requests == Len(calls') > Len(calls)
LastCall == calls'[Len(calls')]

HasPinnedCommit ==
    SubmoduleQueries(dependencies.submodules, 1, <<>>) # <<>>

\* C6: with offline set, whatever the inventory, no request is issued to
\* either source, no exception leaves the run, the run goes on through
\* enrichment, deduplication and report synthesis until the report is
\* built, and the report has vulnerabilities_found = 0 and the four
\* severity counts 0.
C6_OfflineRun ==
    offline =>
        /\ calls = <<>>
        /\ ~raised /\ pc # "raised"
        /\ pc # "done" => ENABLED Next
        /\ pc = "done" =>
              /\ report.built
              /\ report.summary.vulnerabilities_found = 0
              /\ report.summary.critical_count = 0
              /\ report.summary.high_count = 0
              /\ report.summary.medium_count = 0
              /\ report.summary.low_count = 0

\* an offline run over stage packages, a pinned commit and Conan
\* dependencies has built its report
C6_Witness ==
    /\ offline /\ pc = "done" /\ report.built
    /\ \E s \in 1..Len(Stages) : StagePairs(Stages[s]) # <<>>
    /\ HasPinnedCommit
    /\ \E k \in 1..Len(Conan) : ConanUsable(_clean_version(Conan[k].version))

\* the request of group grp was issued
Issued(grp) ==
    \E c \in 1..Len(calls) :
        calls[c].api = "osv.query_batch" /\ calls[c].group = grp

LookupFailed ==
    \E c \in 1..Len(calls) : calls[c].api = "nvd.cves_by_cpe" /\ ~calls[c].ok

\* the registry-based source has been asked about every usable Conan
\* dependency
AllConanAsked ==
    \A k \in 1..Len(Conan) :
        ConanUsable(_clean_version(Conan[k].version)) =>
            \E c \in 1..Len(calls) :
                /\ calls[c].api = "nvd.find_cpe_candidates"
                /\ calls[c].keyword = Conan[k].name

\* every group with queries has had its request, and the registry-based
\* source has been asked about the usable Conan dependencies
AllGroupsIssued ==
    /\ \A s \in 1..Len(Stages) :
          StagePairs(Stages[s]) # <<>> => Issued(Stages[s].stage)
    /\ (Len(Stages) = 0 /\ TruthyT(ecosystem)
          /\ FlatPairs(dependencies.system, ecosystem, 1, <<>>) # <<>>)
          => Issued(<<"system">>)
    /\ HasPinnedCommit => Issued(<<"submodules">>)
    /\ ~LookupFailed => AllConanAsked

\* C9: a batched request (of a stage, of the flat fallback, of the pinned
\* commits) that raises adds no finding and removes none of those obtained
\* so far, and once the query functions have returned every group with
\* queries has had its request and the registry-based source has been asked,
\* whichever batched requests failed.
C9_BatchFailureIsolated ==
    /\ [][(Requests /\ LastCall.api = "osv.query_batch" /\ ~LastCall.ok)
            => (findings' = findings /\ local' = local)]_vars
    /\ []((~offline /\ Queried) => AllGroupsIssued)

\* a stage's request succeeded with a finding, a later stage's request
\* failed, the pinned commits and the registry were still queried, and the
\* finding is in the result
C9_Witness ==
    /\ pc = "dedupe"
    /\ Len(findings) > 0
    /\ \E i, j, k, n \in 1..Len(calls) :
          /\ i < j /\ j < k /\ k < n
          /\ calls[i].api = "osv.query_batch" /\ calls[i].ok
          /\ calls[j].api = "osv.query_batch" /\ ~calls[j].ok
          /\ calls[k].api = "osv.query_batch" /\ calls[k].group = <<"submodules">>
          /\ calls[n].api = "nvd.find_cpe_candidates"

\* C10: a cves_by_cpe lookup that raises for one Conan dependency costs the
\* findings of that dependency only: the findings of the lookups made
\* before it stay on their way into the run's finding list, and the
\* dependencies after it are still looked up, one request per identifier.
C10_LookupFailureIsolated ==
    /\ [][(Requests /\ LastCall.api = "nvd.cves_by_cpe" /\ ~LastCall.ok)
            => (findings' \o local' = findings \o local)]_vars
    /\ []((~offline /\ Queried) => AllConanAsked)

----------------------------------------------------------------------------
(* Enrichment harness: _enrich_osv_with_nvd on any list of findings the    *)
(* normalisers can emit; items keeps the list as it was passed in.         *)

MaxEnrich == 3

Ghsa == <<"GHSA-", "x">>
UbuntuCve1 == <<"UBUNTU-", "CVE-", "2023-1255">>
UbuntuCve2 == <<"UBUNTU-", "CVE-", "2024-0001">>

OsvItem(id, sev, als) ==
    Finding("OSV", id, Zlib, "Ubuntu", Ver1, "s1", sev, NoCvss, <<>>, als, <<>>)

EnrichPool ==
    { OsvItem(Ghsa, NoneT, <<CVE1>>),
      OsvItem(<<"USN-", "1">>, NoneT, <<UbuntuCve1>>),
      OsvItem(UbuntuCve2, NoneT, <<>>),
      OsvItem(CVE2, NoneT, <<>>),
      OsvItem(Ghsa, NoneT, <<>>),
      OsvItem(Ghsa, "HIGH", <<CVE1>>),
      Finding("NVD", CVE3, OpenSsl, NoneT, <<"1.1.1f">>, "d3", NoneT,
              Cvss(NoneT, 98), <<>>, <<>>, <<>>) }

InitEnrich ==
    /\ pc = "enrich"
    /\ items \in SeqsUpTo(EnrichPool, MaxEnrich)
    /\ findings = items
    /\ offline = FALSE /\ forced_ecosystem = NoneT /\ ecosystem = NoneT
    /\ dependencies = NoDependencies
    /\ pos = 1 /\ local = <<>> /\ vulnerabilities = <<>>
    /\ report = NoReport /\ calls = <<>> /\ raised = FALSE
    /\ out = <<>> /\ out2 = <<>>
    /\ IdleSeverity /\ IdleCpe /\ IdleOsv

NextEnrich == EnrichSkip \/ EnrichLookup \/ EnrichDone

SpecEnrich == InitEnrich /\ [][NextEnrich]_vars

\* the step that handles findings[pos]
Handles == pc = "enrich" /\ pos <= Len(findings)

\* a vendor-prefixed alias that embeds a canonical identifier
VendorPrefixed(a) == Len(a) = 3 /\ a[1] = "UBUNTU-" /\ a[2] = "CVE-"

\* the canonical identifier in the order the claim gives: an alias in
\* canonical form, else a vendor-prefixed alias rewritten, else the id when
\* it is canonical; NoneS when none is recovered
ClaimedCveId(f) ==
    LET canon == SelectSeq(f.aliases, StartsWithCve)
        vendor == SelectSeq(f.aliases, VendorPrefixed)
    IN IF Len(canon) > 0 THEN canon[1]
       ELSE IF Len(vendor) > 0 THEN <<"CVE-", vendor[1][3]>>
       ELSE IF f.id # NoneS /\ StartsWithCve(f.id) THEN f.id
       ELSE NoneS

\* the lookup returned a CVSS v3.1 metric with base score 7.5
ReturnsScore75(o) ==
    /\ ~o.raised /\ Len(o.vulnerabilities) > 0
    /\ Len(o.vulnerabilities[1].cvssMetricV31) > 0
    /\ o.vulnerabilities[1].cvssMetricV31[1].baseScore = 75

\* C13: for a batch-advisory finding without severity the canonical
\* identifier is the first alias in canonical form, else a vendor-prefixed
\* alias rewritten (UBUNTU-CVE-2023-1255 to CVE-2023-1255), else the
\* finding's id when canonical; when one is recovered the step issues
\* exactly one lookup, for that identifier, and a lookup that returns a
\* CVSS v3.1 metric of base score 7.5 leaves the finding classified HIGH.
C13_IdentifierRecovery ==
    [][(Handles /\ EnrichApplies(findings[pos])
           /\ ClaimedCveId(findings[pos]) # NoneS)
        => \E o \in EnrichOutcomes :
              /\ calls' = Append(calls, CveCall(ClaimedCveId(findings[pos]), o))
              /\ ReturnsScore75(o) => _severity_of(findings'[pos]) = "HIGH"]_vars

\* the lookup returned an entry with metric data
HasMetric(o) ==
    /\ ~o.raised /\ Len(o.vulnerabilities) > 0
    /\ \/ Len(o.vulnerabilities[1].cvssMetricV31) > 0
       \/ Len(o.vulnerabilities[1].cvssMetricV30) > 0

\* C14: enrichment never raises (a failed lookup only ends the handling of
\* its finding); it issues a lookup only for batch-advisory findings
\* without severity, one per finding; it changes a finding only when the
\* finding is such a one, the lookup was for a canonical identifier and
\* succeeded with metric data, and then only its score data; every other
\* finding keeps all fields, and number and order of the findings stay.
C14_EnrichmentFrame ==
    /\ [](~raised /\ Len(findings) = Len(items))
    /\ [][Handles =>
            /\ pc' = "enrich" /\ pos' = pos + 1
            /\ \A k \in 1..Len(findings) : k # pos => findings'[k] = findings[k]]_vars
    /\ [][Requests =>
            /\ Handles
            /\ findings[pos].source = "OSV" /\ ~TruthyT(findings[pos].severity)
            /\ Len(calls') = Len(calls) + 1]_vars
    /\ [][findings' # findings =>
            /\ Handles
            /\ findings[pos].source = "OSV" /\ ~TruthyT(findings[pos].severity)
            /\ Requests /\ LastCall.ok /\ StartsWithCve(LastCall.cveId)
            /\ \E o \in EnrichOutcomes :
                  /\ HasMetric(o)
                  /\ findings'[pos] =
                        [findings[pos] EXCEPT !.cvss = FirstMetric(o.vulnerabilities[1])]]_vars
    /\ [](pc = "dedupe" =>
            \A k \in 1..Len(items) :
                (items[k].source # "OSV" \/ TruthyT(items[k].severity))
                    => findings[k] = items[k])

\* a list with a registry finding, a finding whose lookup failed and one
\* that enrichment changed
C14_Witness ==
    /\ pc = "dedupe" /\ Len(items) = 3
    /\ \E k \in 1..Len(items) : items[k].source = "NVD"
    /\ \E c \in 1..Len(calls) : ~calls[c].ok
    /\ \E k \in 1..Len(items) : findings[k] # items[k]

\* the findings of the report attributed to package pkg
GroupOf(pkg) == SelectSeq(report.vulnerabilities, LAMBDA v : PackageOf(v) = pkg)

\* the highest rank among the labels _severity_of gives the findings of g
MaxRank(g) ==
    CHOOSE r \in { Rank(_severity_of(g[k])) : k \in 1..Len(g) } :
        \A k \in 1..Len(g) : Rank(_severity_of(g[k])) <= r

\* C15: the priority of a per-package recommendation is the aggregate
\* severity of the package's findings (the highest-ranked label among
\* them) when that is LOW, MEDIUM, HIGH or CRITICAL, and LOW when it is
\* UNKNOWN; it is always one of the four.
C15_PriorityMirrorsAggregate ==
    pc = "done" =>
        \A n \in 1..Len(report.recommendations) :
            LET rec == report.recommendations[n]
                g == GroupOf(rec.package)
            IN /\ rec.priority \in {"LOW", "MEDIUM", "HIGH", "CRITICAL"}
               /\ Len(g) > 0
               /\ Rank(rec.priority) = (IF MaxRank(g) >= 0 THEN MaxRank(g) ELSE 0)

\* pkg is the attribution of a platform package of a Ubuntu or Debian
\* build stage, or of the flat map when it is the group queried
PlatformAttribution(pkg) ==
    \/ \E s \in 1..Len(Stages) :
          /\ Stages[s].ecosystem \in {"Ubuntu", "Debian"}
          /\ \E k \in 1..Len(Stages[s].apt) :
                pkg = StageQualified(Stages[s].stage, Stages[s].apt[k].name)
    \/ /\ Len(Stages) = 0 /\ ecosystem \in {"Ubuntu", "Debian"}
       /\ InMap(dependencies.system, pkg)

\* C16: the recommendation of every group of findings the batch service
\* returned for a platform package of a Ubuntu or Debian stage, per-stage
\* grouping included, carries the apt upgrade or apt security-update action
\* and not the generic fallback.
C16_PlatformAction ==
    pc = "done" =>
        \A n \in 1..Len(report.recommendations) :
            LET rec == report.recommendations[n] IN
            PlatformAttribution(rec.package) =>
                rec.action.kind \in {"apt_only_upgrade", "apt_security_updates"}

\* the finding came from the request for the pinned commits: the only
\* request normalised without metadata, so its findings carry no package
\* (the service embeds none)
FromPinnedCommit(f) ==
    f.source = "OSV" /\ f.package = NoneS /\ Issued(<<"submodules">>)

\* C17: the recommendation of every group of findings the batch service
\* returned for a pinned commit of a submodule suggests advancing the pin
\* past the security patch, and not the generic fallback.
C17_PinnedCommitAction ==
    pc = "done" =>
        \A n \in 1..Len(report.recommendations) :
            LET rec == report.recommendations[n] IN
            (\E k \in 1..Len(GroupOf(rec.package)) :
                 FromPinnedCommit(GroupOf(rec.package)[k]))
                => rec.action.kind = "submodule_update"

\* C18: every query submitted to the batch service is a package key with
\* a recognised platform family and a version that, the "(installed)"
\* suffix stripped, is non-empty and none of "system", "required",
\* "unknown", or a commit key with a non-empty hash free of leading
\* ahead/behind markers.
C18_ValidKeys ==
    \A c \in 1..Len(calls) :
        calls[c].api = "osv.query_batch" =>
            \A k \in 1..Len(calls[c].queries) :
                LET q == calls[c].queries[k] IN
                IF q.kind = "package"
                THEN /\ q.ecosystem \in {"Ubuntu", "Debian", "Alpine"}
                     /\ TruthyS(q.name)
                     /\ _clean_version(q.version) # <<>>
                     /\ _clean_version(q.version)
                           \notin {<<"system">>, <<"required">>, <<"unknown">>}
                ELSE /\ Len(q.commit) > 0
                     /\ q.commit[1] \notin {"-", "+", Space}

----------------------------------------------------------------------------
(* Report harness: _generate_report on any deduplicated list of findings   *)
(* over one inventory (zlib as a platform package of the flat map, openssl *)
(* as a Conan dependency, one submodule), self.ecosystem = "Debian".       *)

MaxReport == 3

ReportInventory ==
    [conan |-> <<Pkg(OpenSsl, <<"1.1.1f">>)>>,
     system |-> <<Pkg(Zlib, Ver1)>>,
     system_by_stage |-> <<>>,
     submodules |-> <<[name |-> <<"sub">>, commit |-> <<"abc123">>]>>,
     cmake |-> <<>>]

\* events: [{"fixed": "1.2.13"}, {"limit": "1.3"}]
AffectedFixedAndLimit ==
    <<Affected(<<Range1("list", <<Event(Ver1, NoneS), Event(NoneS, Fixed13)>>)>>)>>
\* events: [{"introduced": ..}, {"limit": "7.74.0"}]
AffectedLimitOnly ==
    <<Affected(<<Range1("list", <<Event(NoneS, NoneS), Event(NoneS, Ver2)>>)>>)>>

\* findings as the normalisers emit them: attributed by the flat fallback
\* (zlib), by the package a result embeds (openssl), by nothing (pinned
\* commit), and registry findings of the Conan dependency
ReportPool ==
    { Finding("OSV", CVE1, Zlib, "Debian", Ver1, "s1", "HIGH", NoCvss,
              <<"u1">>, <<>>, AffectedFixed13),
      Finding("OSV", CVE2, OpenSsl, NoneT, NoneS, "s2", NoneT, NoCvss,
              <<>>, <<>>, AffectedFixedAndLimit),
      Finding("OSV", CVE3, OpenSsl, NoneT, NoneS, "s3", "MEDIUM", NoCvss,
              <<>>, <<>>, AffectedLimitOnly),
      Finding("NVD", <<"CVE-", "2021-3449">>, OpenSsl, NoneT, <<"1.1.1f">>, "d1", NoneT,
              Cvss("HIGH", 75), <<"n1">>, <<>>, <<>>),
      Finding("OSV", Ghsa, NoneS, NoneT, NoneS, "s5", "LOW", NoCvss,
              <<>>, <<>>, <<>>),
      Finding("OSV", <<"CVE-", "2018-25032">>, Zlib, "Debian", Ver1, "s6", NoneT, NoCvss,
              <<>>, <<>>, <<Affected(<<Range1("list", <<>>)>>)>>),
      Finding("OSV", <<"OSV-", "2019-1">>, NoneS, NoneT, NoneS, "s7", "LOW", NoCvss,
              <<>>, <<>>, <<Affected(<<Range1("missing", <<>>)>>)>>),
      Finding("OSV", <<"GHSA-", "y">>, Zlib, "Debian", Ver1, "s8", "MODERATE", NoCvss,
              <<>>, <<>>, <<>>) }

InitReport ==
    /\ pc = "report"
    /\ findings \in SeqsUpTo(ReportPool, MaxReport)
    /\ vulnerabilities = _dedupe_findings(findings)
    /\ offline = FALSE /\ forced_ecosystem = NoneT /\ ecosystem = "Debian"
    /\ dependencies = ReportInventory
    /\ pos = 1 /\ local = <<>>
    /\ report = NoReport /\ calls = <<>> /\ raised = FALSE
    /\ IdleDedupe /\ IdleSeverity /\ IdleCpe /\ IdleOsv

NextReport == GenerateReport

SpecReport == InitReport /\ [][NextReport]_vars

\* the candidates of one range as the claim gives them: every explicit
\* fixed value and, when the range has none, the limit of its last event
ClaimRangeFixed(r) ==
    LET fx == { r.events[k].fixed :
                  k \in {j \in 1..Len(r.events) : TruthyS(r.events[j].fixed)} }
    IN IF fx # {} THEN fx
       ELSE IF Len(r.events) > 0 /\ TruthyS(r.events[Len(r.events)].limit)
            THEN {r.events[Len(r.events)].limit}
            ELSE {}

ClaimFixed(v) ==
    UNION { UNION { ClaimRangeFixed(v.affected[a].ranges[k]) :
                      k \in 1..Len(v.affected[a].ranges) } :
            a \in 1..Len(v.affected) }

\* C20: the fixed-version candidates of a range are the explicit fixed
\* values of its events plus, when it has none, the limit of its last
\* event; the candidates of a package group are those of its
\* batch-advisory findings, without duplicates and in ascending
\* lexicographic order, and the Conan action names the first of them.
C20_FixedCandidates ==
    pc = "done" =>
        \A n \in 1..Len(report.recommendations) :
            LET rec == report.recommendations[n]
                fc == rec.fixed_candidates
                g == GroupOf(rec.package)
            IN /\ Range(fc) =
                    UNION { ClaimFixed(g[k]) :
                              k \in {j \in 1..Len(g) : g[j].source = "OSV"} }
               /\ \A i, j \in 1..Len(fc) : i < j => StrLess(fc[i], fc[j])
               /\ rec.action.kind = "conan_bump" => rec.action.fixed = fc[1]

\* C11: whatever the outcomes of the batch requests, keyword searches,
\* identifier lookups and enrichment lookups, run_security_check does not
\* raise: the run goes on until it returns a report with its summary, the
\* inventory's counts, the deduplicated findings and the recommendations.
C11_RunReturnsReport ==
    /\ ~raised /\ pc # "raised"
    /\ pc # "done" => ENABLED Next
    /\ pc = "done" =>
          /\ report.built
          /\ report.vulnerabilities = _dedupe_findings(findings)
          /\ report.summary.vulnerabilities_found = Len(report.vulnerabilities)

\* the batched requests issued so far
BatchCalls == {i \in 1..Len(calls) : calls[i].api = "osv.query_batch"}

\* the query group at hand has an empty key list
EmptyGroupAtHand ==
    /\ ~offline
    /\ \/ /\ pc = "osv_system" /\ Len(Stages) > 0 /\ pos <= Len(Stages)
          /\ StagePairs(Stages[pos]) = <<>>
       \/ /\ pc = "osv_system" /\ Len(Stages) = 0
          /\ \/ ~TruthyT(ecosystem)
             \/ FlatPairs(dependencies.system, ecosystem, 1, <<>>) = <<>>
       \/ /\ pc = "osv_submodules"
          /\ SubmoduleQueries(dependencies.submodules, 1, <<>>) = <<>>

(* C22: in one run each batch-advisory query group (a build stage, the     *)
(* flat fallback group, the pinned-commit group) issues at most one        *)
(* batched request, so a failed request is never attempted again; no       *)
(* request carries an empty key list, and a group whose key list is empty  *)
(* issues no request and adds no finding.                                  *)
C22_OneRequestPerGroup ==
    /\ [](\A i, j \in BatchCalls : i # j => calls[i].group # calls[j].group)
    /\ [](\A i \in BatchCalls : calls[i].queries # <<>>)
    /\ [][EmptyGroupAtHand =>
            (calls' = calls /\ findings' \o local' = findings \o local)]_vars

\* a finished run in which the first stage had no key, the request of the
\* second failed and the request for the pinned commit was answered
C22_Witness ==
    /\ pc = "done" /\ ~offline
    /\ Stages = <<StageScratch, StageRuntime>>
    /\ \E i, j \in BatchCalls :
          /\ calls[i].group = StageRuntime.stage /\ ~calls[i].ok
          /\ calls[j].group = <<"submodules">> /\ calls[j].ok
    /\ Cardinality(BatchCalls) = 2

\* the place of a step of the run in the order platform packages, pinned
\* commits, package-manager lookups, enrichment, deduplication, report
PhaseOf(p) ==
    CASE p = "osv_system" -> 1
      [] p = "osv_submodules" -> 2
      [] p = "nvd_conan" -> 3
      [] p = "enrich" -> 4
      [] p = "dedupe" -> 5
      [] p = "report" -> 6
      [] OTHER -> 7

\* the phase a request belongs to
PhaseOfCall(c) ==
    IF c.api = "osv.query_batch"
    THEN (IF c.group = <<"submodules">> THEN 2 ELSE 1)
    ELSE IF c.api = "nvd.cve" THEN 4 ELSE 3

IsPrefix(a, b) == Len(a) <= Len(b) /\ SubSeq(b, 1, Len(a)) = a

\* every finding enrichment applies to has had its lookup
EnrichmentFinished ==
    \A k \in 1..Len(findings) :
        (EnrichApplies(findings[k]) /\ CveIds(findings[k]) # <<>>) =>
            \E c \in 1..Len(calls) :
                calls[c].api = "nvd.cve" /\ calls[c].cveId = CveIds(findings[k])[1]

(* C23: the phases of a run follow one another in the fixed order platform *)
(* packages, pinned commits, package-manager lookups, enrichment,          *)
(* deduplication, report: no step goes back to an earlier phase and every  *)
(* request is issued in the phase of its group; the finding list grows     *)
(* only by the groups' results being appended in that order; enrichment    *)
(* has handled every finding before deduplication, which runs on the       *)
(* whole list, and the report is built from the deduplicated list only     *)
(* after it.                                                               *)
C23_FixedOrder ==
    /\ [][/\ PhaseOf(pc') \in {PhaseOf(pc), PhaseOf(pc) + 1}
          /\ Requests =>
                \A c \in (Len(calls) + 1)..Len(calls') :
                    PhaseOfCall(calls'[c]) = PhaseOf(pc)
          /\ PhaseOf(pc) <= 3 => IsPrefix(findings, findings')
          /\ PhaseOf(pc) = 4 => Len(findings') = Len(findings)
          /\ PhaseOf(pc) >= 5 => findings' = findings]_vars
    /\ [](PhaseOf(pc) <= 5 => vulnerabilities = <<>> /\ ~report.built)
    /\ [](PhaseOf(pc) >= 5 => local = <<>> /\ EnrichmentFinished)
    /\ [](PhaseOf(pc) >= 6 => vulnerabilities = _dedupe_findings(findings))
    /\ [](pc = "done" => report.built /\ report.vulnerabilities = vulnerabilities)

\* a finished run that asked about a stage, the pinned commit and a Conan
\* dependency, enriched a finding and removed a duplicate
C23_Witness ==
    /\ pc = "done"
    /\ \E i, j, k, n \in 1..Len(calls) :
          /\ i < j /\ j < k /\ k < n
          /\ PhaseOfCall(calls[i]) = 1 /\ PhaseOfCall(calls[j]) = 2
          /\ PhaseOfCall(calls[k]) = 3 /\ PhaseOfCall(calls[n]) = 4
    /\ Len(report.vulnerabilities) < Len(findings)

(* C24: no stage changes the finding records a prior stage produced: once  *)
(* the normalizers have emitted them, enrichment, deduplication, severity  *)
(* classification, report generation and recommendation synthesis leave    *)
(* the records of the finding list as they are, and report generation      *)
(* leaves the deduplicated list as it is.                                  *)
C24_NoInPlaceMutation ==
    [][/\ PhaseOf(pc) >= 4 => findings' = findings
       /\ PhaseOf(pc) >= 6 => vulnerabilities' = vulnerabilities]_vars

\* C24 as the code has it: deduplication, severity classification, report
\* generation and recommendation synthesis leave the finding records as
\* they are, the deduplicated list is made of records of the finding list
\* and the report holds that list; enrichment changes the records handed to
\* it in place, but only the score data of the batch-advisory finding
\* without severity it has just looked up successfully: every other field,
\* every other record, and the length and order of the list are unchanged.
C24_OnlyEnrichmentMutates ==
    /\ [][/\ PhaseOf(pc) >= 5 => findings' = findings
          /\ PhaseOf(pc) >= 6 => vulnerabilities' = vulnerabilities
          /\ PhaseOf(pc) = 4 =>
                /\ Len(findings') = Len(findings)
                /\ \A k \in 1..Len(findings) :
                      \/ findings'[k] = findings[k]
                      \/ /\ k = pos
                         /\ findings[k].source = "OSV" /\ ~TruthyT(findings[k].severity)
                         /\ Requests /\ LastCall.api = "nvd.cve" /\ LastCall.ok
                         /\ findings'[k] =
                               [findings[k] EXCEPT !.cvss = findings'[k].cvss]]_vars
    /\ [](PhaseOf(pc) >= 6 => Range(vulnerabilities) \subseteq Range(findings))
    /\ [](pc = "done" => report.vulnerabilities = vulnerabilities)

\* a finished run in which enrichment gave a batch-advisory finding its
\* score data
C24_Witness ==
    /\ pc = "done"
    /\ \E c \in 1..Len(calls) : calls[c].api = "nvd.cve" /\ calls[c].ok
    /\ \E k \in 1..Len(findings) :
          /\ findings[k].source = "OSV" /\ findings[k].cvss # NoCvss
          /\ findings[k] \in Range(report.vulnerabilities)

(* C25: when the checker is constructed with a forced platform ecosystem   *)
(* (Ubuntu or Debian), every platform-package key submitted for system     *)
(* packages carries the forced ecosystem, also when the packages were      *)
(* inventoried per build stage.                                            *)
C25_ForcedEcosystem ==
    TruthyT(forced_ecosystem) =>
        \A c \in BatchCalls :
            \A q \in 1..Len(calls[c].queries) :
                calls[c].queries[q].kind = "package" =>
                    calls[c].queries[q].ecosystem = forced_ecosystem

\* the attributed package names of a finding list
PackagesOf(vulns) == { PackageOf(vulns[k]) : k \in 1..Len(vulns) }

(* C26: recommendation synthesis completes without raising for every       *)
(* deduplicated finding list, also when batch-advisory findings have       *)
(* affected ranges with an empty or missing events list, and the report    *)
(* holds exactly one Package recommendation per distinct attributed        *)
(* package name, findings without attribution grouped under "unknown".     *)
C26_SynthesisCompletes ==
    /\ ~raised /\ pc # "raised"
    /\ pc = "report" => ENABLED GenerateReport
    /\ pc = "done" =>
          /\ Len(report.recommendations) = Cardinality(PackagesOf(vulnerabilities))
          /\ \A p \in PackagesOf(vulnerabilities) :
                Cardinality({n \in 1..Len(report.recommendations) :
                                /\ report.recommendations[n].category = "Package"
                                /\ report.recommendations[n].package = p}) = 1

FiveLabels == {"LOW", "MEDIUM", "HIGH", "CRITICAL", "UNKNOWN"}

(* C27: in every report vulnerabilities_found is the length of the         *)
(* deduplicated finding list, every finding is classified by _severity_of  *)
(* with one of the five labels LOW, MEDIUM, HIGH, CRITICAL, UNKNOWN, and   *)
(* the four severity counts plus the number of findings classified         *)
(* UNKNOWN add up to vulnerabilities_found.                                *)
C27_CountsPartition ==
    pc = "done" =>
        LET sm == report.summary IN
        /\ report.vulnerabilities = _dedupe_findings(findings)
        /\ sm.vulnerabilities_found = Len(_dedupe_findings(findings))
        /\ \A k \in 1..Len(report.vulnerabilities) :
              _severity_of(report.vulnerabilities[k]) \in FiveLabels
        /\ sm.critical_count + sm.high_count + sm.medium_count + sm.low_count
              + CountOf(report.vulnerabilities, "UNKNOWN") = sm.vulnerabilities_found

====
